---- MODULE Spec2Model ----
(***************************************************************************)
(* Roulette betting-strategy simulation: the wheel, the three strategies   *)
(* (Martingale, Flat Betting, Reverse Martingale) and the simulation loop  *)
(* of Simulation.run, one loop iteration (one wheel spin applied to every  *)
(* strategy in list order) per step.                                       *)
(***************************************************************************)
EXTENDS Integers, Sequences, FiniteSets, TLC

\* ---- bounds of the model ----
MaxBankroll == 4      \* initial bankrolls 0..MaxBankroll (besides the default)
MaxBet == 3           \* base bets 0..MaxBet (besides the default)
MaxSpins == 3         \* num_spins ranges over 0..MaxSpins
MaxLow == 3           \* the wheel draws enumerated: 0..MaxLow (green, and the
MaxHigh == 12         \* numbers whose colour follows parity) and 11..MaxHigh
                      \* (black odd, red even)
MaxRuns == 2          \* run() is invoked at most MaxRuns times
MaxShort == 2         \* num_spins ranges over 0..MaxShort in the runs over the
                      \* whole wheel and over the other strategy lists

\* ---- program constants ----
DefaultBankroll == 1000
DefaultBet == 10
WheelSize == 37

VARIABLES strategies, num_spins, pc, spin, outcomes, runs

vars == <<strategies, num_spins, pc, spin, outcomes, runs>>

\* ---- RouletteWheel ----
numbers == 0..(WheelSize - 1)

red_numbers == {1, 3, 5, 7, 9, 12, 14, 16, 18, 19, 21, 23, 25, 27, 30, 32, 34, 36}

\* mutant: 0 is not told apart and gets the colour of the non-red numbers
colors_NoGreen ==
  [number \in numbers |->
     IF number \in red_numbers THEN "Red" ELSE "Black"]

colors ==
  [number \in numbers |->
     IF number = 0 THEN "Green"
     ELSE IF number \in red_numbers THEN "Red"
     ELSE "Black"]

\* the results spin() can return: random.choice over the numbers, paired with
\* the table colour (the enumeration is cut to the numbers of Drawn)
Drawn == {n \in numbers : n <= MaxLow \/ (n >= 11 /\ n <= MaxHigh)}

RouletteWheel_spin ==
  {<<number, colors[number]>> : number \in Drawn}

\* the results spin() can return, over all the numbers of the wheel
RouletteWheel_spin_any ==
  {<<number, colors[number]>> : number \in numbers}

\* ---- Strategy ----
\* Besides the fields of the class a strategy carries one history variable,
\* trace: per processed spin, the result its update was called with, or
\* NoUpdate when the runner skipped it.
NoUpdate == <<>>

Strategy(name, initial_bankroll, base_bet) ==
  [name |-> name,
   initial_bankroll |-> initial_bankroll,
   bankroll |-> initial_bankroll,
   base_bet |-> base_bet,
   current_bet |-> base_bet,
   history |-> <<>>,
   trace |-> <<>>]

\* mutant: reset leaves current_bet as the previous run left it
reset_KeepBet(self) ==
  [self EXCEPT !.bankroll = self.initial_bankroll,
               !.history = <<>>,
               !.trace = <<>>]

reset(self) ==
  [self EXCEPT !.bankroll = self.initial_bankroll,
               !.current_bet = self.base_bet,
               !.history = <<>>,
               !.trace = <<>>]

\* ---- MartingaleStrategy ----
\* mutant: the bet is placed on Black
MartingaleStrategy_place_bet_Black(self) ==
  [type |-> "Color", value |-> "Black", amount |-> self.current_bet]

MartingaleStrategy_place_bet(self) ==
  [type |-> "Color", value |-> "Red", amount |-> self.current_bet]

\* mutant: the bet is not reset to base_bet after a win
MartingaleStrategy_update_KeepBet(self, result) ==
  LET color == result[2]
      bet == MartingaleStrategy_place_bet(self)
  IN IF color = bet.value
     THEN LET bankroll == self.bankroll + bet.amount
          IN [self EXCEPT !.bankroll = bankroll,
                          !.history = Append(@, bankroll),
                          !.trace = Append(@, result)]
     ELSE LET bankroll == self.bankroll - bet.amount
              doubled == self.current_bet * 2
          IN [self EXCEPT !.bankroll = bankroll,
                          !.current_bet = IF doubled > bankroll THEN bankroll ELSE doubled,
                          !.history = Append(@, bankroll),
                          !.trace = Append(@, result)]

\* mutant: the doubled bet is not clamped to the bankroll
MartingaleStrategy_update_NoClamp(self, result) ==
  LET color == result[2]
      bet == MartingaleStrategy_place_bet(self)
  IN IF color = bet.value
     THEN LET bankroll == self.bankroll + bet.amount
          IN [self EXCEPT !.bankroll = bankroll,
                          !.current_bet = self.base_bet,
                          !.history = Append(@, bankroll),
                          !.trace = Append(@, result)]
     ELSE LET bankroll == self.bankroll - bet.amount
          IN [self EXCEPT !.bankroll = bankroll,
                          !.current_bet = self.current_bet * 2,
                          !.history = Append(@, bankroll),
                          !.trace = Append(@, result)]

MartingaleStrategy_update(self, result) ==
  LET color == result[2]
      bet == MartingaleStrategy_place_bet(self)
  IN IF color = bet.value
     THEN LET bankroll == self.bankroll + bet.amount
          IN [self EXCEPT !.bankroll = bankroll,
                          !.current_bet = self.base_bet,
                          !.history = Append(@, bankroll),
                          !.trace = Append(@, result)]
     ELSE LET bankroll == self.bankroll - bet.amount
              doubled == self.current_bet * 2
          IN [self EXCEPT !.bankroll = bankroll,
                          !.current_bet = IF doubled > bankroll THEN bankroll ELSE doubled,
                          !.history = Append(@, bankroll),
                          !.trace = Append(@, result)]

\* ---- FlatBettingStrategy ----
FlatBettingStrategy_place_bet(self) ==
  [type |-> "Color", value |-> "Black", amount |-> self.current_bet]

\* mutant: the bet is doubled after a loss
FlatBettingStrategy_update_Doubling(self, result) ==
  LET color == result[2]
      bet == FlatBettingStrategy_place_bet(self)
      bankroll == IF color = bet.value
                  THEN self.bankroll + bet.amount
                  ELSE self.bankroll - bet.amount
  IN [self EXCEPT !.bankroll = bankroll,
                  !.current_bet = IF color = bet.value THEN @ ELSE @ * 2,
                  !.history = Append(@, bankroll),
                  !.trace = Append(@, result)]

FlatBettingStrategy_update(self, result) ==
  LET color == result[2]
      bet == FlatBettingStrategy_place_bet(self)
      bankroll == IF color = bet.value
                  THEN self.bankroll + bet.amount
                  ELSE self.bankroll - bet.amount
  IN [self EXCEPT !.bankroll = bankroll,
                  !.history = Append(@, bankroll),
                          !.trace = Append(@, result)]

\* ---- ReverseMartingaleStrategy ----
\* mutant: the bet is placed on Even
ReverseMartingaleStrategy_place_bet_Even(self) ==
  [type |-> "Parity", value |-> "Even", amount |-> self.current_bet]

ReverseMartingaleStrategy_place_bet(self) ==
  [type |-> "Parity", value |-> "Odd", amount |-> self.current_bet]

\* mutant: the bet is clamped to the bankroll after a win only
ReverseMartingaleStrategy_update_ClampOnWin(self, result) ==
  LET number == result[1]
      bet == ReverseMartingaleStrategy_place_bet(self)
      branch == IF number = 0 THEN "zero"
                ELSE IF (number % 2 = 1 /\ bet.value = "Odd")
                        \/ (number % 2 = 0 /\ bet.value = "Even") THEN "win"
                ELSE "loss"
      bankroll == IF branch = "win"
                  THEN self.bankroll + bet.amount
                  ELSE self.bankroll - bet.amount
      current_bet == IF branch = "win" THEN self.current_bet * 2 ELSE self.base_bet
  IN [self EXCEPT !.bankroll = bankroll,
                  !.current_bet = IF branch = "win" /\ current_bet > bankroll
                                  THEN bankroll ELSE current_bet,
                  !.history = Append(@, bankroll),
                  !.trace = Append(@, result)]

\* mutant: the bet is not clamped to the bankroll
ReverseMartingaleStrategy_update_NoClamp(self, result) ==
  LET number == result[1]
      bet == ReverseMartingaleStrategy_place_bet(self)
      branch == IF number = 0 THEN "zero"
                ELSE IF (number % 2 = 1 /\ bet.value = "Odd")
                        \/ (number % 2 = 0 /\ bet.value = "Even") THEN "win"
                ELSE "loss"
      bankroll == IF branch = "win"
                  THEN self.bankroll + bet.amount
                  ELSE self.bankroll - bet.amount
      current_bet == IF branch = "win" THEN self.current_bet * 2 ELSE self.base_bet
  IN [self EXCEPT !.bankroll = bankroll,
                  !.current_bet = current_bet,
                  !.history = Append(@, bankroll),
                  !.trace = Append(@, result)]

ReverseMartingaleStrategy_update(self, result) ==
  LET number == result[1]
      bet == ReverseMartingaleStrategy_place_bet(self)
      branch == IF number = 0 THEN "zero"
                ELSE IF (number % 2 = 1 /\ bet.value = "Odd")
                        \/ (number % 2 = 0 /\ bet.value = "Even") THEN "win"
                ELSE "loss"
      bankroll == IF branch = "win"
                  THEN self.bankroll + bet.amount
                  ELSE self.bankroll - bet.amount
      current_bet == IF branch = "win" THEN self.current_bet * 2 ELSE self.base_bet
  IN [self EXCEPT !.bankroll = bankroll,
                  !.current_bet = IF current_bet > bankroll THEN bankroll ELSE current_bet,
                  !.history = Append(@, bankroll),
                          !.trace = Append(@, result)]

\* dynamic dispatch of strategy.update(result)
update(self, result) ==
  CASE self.name = "Martingale" -> MartingaleStrategy_update(self, result)
    [] self.name = "Flat Betting" -> FlatBettingStrategy_update(self, result)
    [] self.name = "Reverse Martingale" -> ReverseMartingaleStrategy_update(self, result)

\* ---- Simulation ----
\* mutant: a strategy whose bet equals its bankroll is skipped too
insufficient_Strict(strategy) == strategy.bankroll <= strategy.current_bet

\* mutant: a strategy is skipped only once its bankroll is negative
insufficient_Negative(strategy) == strategy.bankroll < 0

\* the guard of the skip branch of Simulation.run
insufficient(strategy) == strategy.bankroll < strategy.current_bet

\* mutant: the skip branch clamps the bet to the bankroll
skip_Clamp(strategy) ==
  [strategy EXCEPT !.current_bet = strategy.bankroll,
                   !.history = Append(@, strategy.bankroll),
                   !.trace = Append(@, NoUpdate)]

\* mutant: the skip branch appends nothing to history
skip_NoAppend(strategy) ==
  [strategy EXCEPT !.trace = Append(@, NoUpdate)]

\* the skip branch: the unchanged bankroll is appended, update is not called
skip(strategy) ==
  [strategy EXCEPT !.history = Append(@, strategy.bankroll),
                   !.trace = Append(@, NoUpdate)]

\* mutant: the runner never skips
process_NoSkip(strategy, result) == update(strategy, result)

\* the body of the inner loop for one strategy
process(strategy, result) ==
  IF insufficient(strategy) THEN skip(strategy) ELSE update(strategy, result)

\* mutant: every strategy after the first is handed a draw of its own
shared_Independent(result) ==
  [i \in DOMAIN strategies |->
     IF i = 1 THEN result
     ELSE LET number == (result[1] + i) % WheelSize
          IN <<number, colors[number]>>]

\* the result each strategy of the inner loop is handed: the one drawn before it
shared(result) == [i \in DOMAIN strategies |-> result]

\* get_results(): one column per strategy, in list order, holding its history
get_results ==
  [i \in DOMAIN strategies |->
     [name |-> strategies[i].name, column |-> strategies[i].history]]

\* ---- Dashboard ----
\* summary_statistics() over a table of at least one row: per column the final
\* bankroll (last row), the profit against the first row, and the ROI as the
\* fraction it is computed from (profit / first row, times 100)
summary_statistics(results_df) ==
  [i \in DOMAIN results_df |->
     LET final == results_df[i].column[Len(results_df[i].column)]
         initial_bankroll == results_df[i].column[1]
         profit == final - initial_bankroll
     IN [strategy |-> results_df[i].name,
         final |-> final,
         profit |-> profit,
         roi_numerator |-> profit,
         roi_denominator |-> initial_bankroll]]

\* the strategy list built by main()
main_strategies(initial_bankroll, base_bet) ==
  <<Strategy("Martingale", initial_bankroll, base_bet),
    Strategy("Flat Betting", initial_bankroll, base_bet),
    Strategy("Reverse Martingale", initial_bankroll, base_bet)>>

Bankrolls == (0..MaxBankroll) \cup {DefaultBankroll}
Bets == (0..MaxBet) \cup {DefaultBet}

\* the state after construction of the strategies and the Simulation
Init ==
  /\ \E initial_bankroll \in Bankrolls, base_bet \in Bets :
        /\ (initial_bankroll = DefaultBankroll) <=> (base_bet = DefaultBet)
        /\ strategies = main_strategies(initial_bankroll, base_bet)
  /\ num_spins \in 0..MaxSpins
  /\ pc = "idle"
  /\ spin = 0
  /\ outcomes = <<>>
  /\ runs = 0

\* run(): the reset loop, entering the spin loop
Run ==
  /\ pc \in {"idle", "done"}
  /\ runs < MaxRuns
  /\ strategies' = [i \in DOMAIN strategies |-> reset(strategies[i])]
  /\ spin' = 0
  /\ outcomes' = <<>>
  /\ runs' = runs + 1
  /\ pc' = "loop"
  /\ UNCHANGED num_spins

\* mutant: history is one list shared by all the strategies, so each of them
\* sees the entries every strategy appended in the spin
resolve_SharedHistory(result) ==
  LET given == shared(result)
      new == [i \in DOMAIN strategies |-> process(strategies[i], given[i])]
      appended == [i \in DOMAIN strategies |-> new[i].bankroll]
  IN /\ strategies' = [i \in DOMAIN strategies |->
                         [new[i] EXCEPT !.history = strategies[i].history \o appended]]
     /\ outcomes' = Append(outcomes, result)

\* the body of the spin loop for the result drawn: every strategy handled in
\* list order
resolve(result) ==
  LET given == shared(result)
  IN /\ strategies' = [i \in DOMAIN strategies |-> process(strategies[i], given[i])]
     /\ outcomes' = Append(outcomes, result)

\* one iteration of the spin loop
Iteration ==
  /\ pc = "loop"
  /\ spin < num_spins
  /\ \E result \in RouletteWheel_spin : resolve(result)
  /\ spin' = spin + 1
  /\ UNCHANGED <<num_spins, pc, runs>>

\* mutant: the loop is left one iteration early
Return_Early ==
  /\ pc = "loop"
  /\ spin >= num_spins - 1
  /\ pc' = "done"
  /\ UNCHANGED <<strategies, num_spins, spin, outcomes, runs>>

\* the spin loop is exhausted and run() returns
Return ==
  /\ pc = "loop"
  /\ spin >= num_spins
  /\ pc' = "done"
  /\ UNCHANGED <<strategies, num_spins, spin, outcomes, runs>>

Next == Run \/ Iteration \/ Return

Spec == Init /\ [][Next]_vars

\* the loop of run() is straight-line code: once started, an iteration and the
\* return are eventually executed
FairSpec == Spec /\ WF_vars(Iteration) /\ WF_vars(Return)

\* ---- runs over other strategy lists ----
Names == {"Martingale", "Flat Betting", "Reverse Martingale"}

\* the lists of one to three different strategies, in every order
strategy_lists(initial_bankroll, base_bet) ==
  LET orders == UNION {[1..n -> Names] : n \in 1..Cardinality(Names)}
  IN {[i \in DOMAIN order |-> Strategy(order[i], initial_bankroll, base_bet)] :
        order \in {o \in orders : \A i, j \in DOMAIN o : o[i] = o[j] => i = j}}

\* the state after construction, for any such list; the bankrolls and base bets
\* are the larger ones of Init, those that take a few spins to exhaust
InitOrder ==
  /\ \E initial_bankroll \in (MaxBankroll - 1)..MaxBankroll,
        base_bet \in (MaxBet - 1)..MaxBet :
        strategies \in strategy_lists(initial_bankroll, base_bet)
  /\ num_spins \in 0..MaxShort
  /\ pc = "idle"
  /\ spin = 0
  /\ outcomes = <<>>
  /\ runs = 0

SpecOrder == InitOrder /\ [][Next]_vars

\* ---- runs with the default strategies over the whole wheel ----
InitWheel ==
  /\ strategies = main_strategies(DefaultBankroll, DefaultBet)
  /\ num_spins \in 0..MaxShort
  /\ pc = "idle"
  /\ spin = 0
  /\ outcomes = <<>>
  /\ runs = 0

\* one iteration of the spin loop, the result drawn among all the numbers
WheelIteration ==
  /\ pc = "loop"
  /\ spin < num_spins
  /\ \E result \in RouletteWheel_spin_any : resolve(result)
  /\ spin' = spin + 1
  /\ UNCHANGED <<num_spins, pc, runs>>

NextWheel == Run \/ WheelIteration \/ Return

SpecWheel == InitWheel /\ [][NextWheel]_vars

TypeOK ==
  /\ pc \in {"idle", "loop", "done"}
  /\ spin \in 0..num_spins
  /\ runs \in 0..MaxRuns

\* ---- helpers of the properties ----
Last(seq) == seq[Len(seq)]

Max(a, b) == IF a >= b THEN a ELSE b

\* the runner called update on this strategy in the latest spin
Updated(strategy) ==
  Len(strategy.trace) > 0 /\ Last(strategy.trace) # NoUpdate

\* the runner skipped this strategy in the latest spin
Skipped(strategy) ==
  Len(strategy.trace) > 0 /\ Last(strategy.trace) = NoUpdate

\* the step is one iteration of the spin loop
IterationStep == pc = "loop" /\ spin' = spin + 1

\* the bet resolves as a win: Martingale on Red, Flat Betting on Black,
\* Reverse Martingale on an odd number
Wins(name, result) ==
  CASE name = "Martingale" -> result[2] = "Red"
    [] name = "Flat Betting" -> result[2] = "Black"
    [] name = "Reverse Martingale" -> result[1] % 2 = 1

\* C1: right after any update call made by the runner, a strategy started with
\* initial bankroll >= 0 and base bet > 0 has 0 <= current_bet <= max(bankroll, 0).
BetClampInvariant ==
  \A i \in DOMAIN strategies :
    LET s == strategies[i]
    IN (Updated(s) /\ s.initial_bankroll >= 0 /\ s.base_bet > 0)
         => (s.current_bet >= 0 /\ s.current_bet <= Max(s.bankroll, 0))

\* C2: after k spins of a run every strategy's history has exactly k entries,
\* skipped spins included, hence num_spins entries when the run has returned.
HistoryLength ==
  /\ Len(outcomes) = spin
  /\ \A i \in DOMAIN strategies :
       /\ Len(strategies[i].history) = spin
       /\ Len(strategies[i].trace) = spin
       /\ pc = "done" => Len(strategies[i].history) = num_spins

HistoryLengthWitness ==
  /\ pc = "done"
  /\ num_spins >= 2
  /\ \E i, j \in DOMAIN strategies :
       /\ Skipped(strategies[i])
       /\ Updated(strategies[j])
       /\ Len(strategies[i].history) = num_spins
       /\ Len(strategies[j].history) = num_spins

\* C3: a strategy with bankroll < current_bet before a spin keeps its bankroll
\* and current_bet over the spin, update is not applied to it, and its history
\* grows by exactly one entry, the unchanged bankroll.
SkipRule ==
  [][\A i \in DOMAIN strategies :
       (IterationStep /\ strategies[i].bankroll < strategies[i].current_bet)
         => /\ strategies'[i].bankroll = strategies[i].bankroll
            /\ strategies'[i].current_bet = strategies[i].current_bet
            /\ strategies'[i].history
                 = Append(strategies[i].history, strategies[i].bankroll)
            /\ Skipped(strategies'[i])]_vars

SkipRuleWitness ==
  \E i \in DOMAIN strategies :
    LET s == strategies[i]
    IN /\ Len(s.history) >= 2
       /\ s.trace[Len(s.trace) - 1] # NoUpdate
       /\ Skipped(s)
       /\ s.history[Len(s.history)] = s.history[Len(s.history) - 1]
       /\ s.bankroll < s.current_bet

\* C4: on every non-skipped spin the bankroll changes by exactly the
\* current_bet held before the update, added on a win and subtracted on a loss
\* (Martingale wins on Red, Flat Betting on Black, Reverse Martingale on odd;
\* 0 loses for all three), and the new bankroll is appended to history.
WinLossResolution ==
  [][\A i \in DOMAIN strategies :
       (IterationStep /\ strategies[i].bankroll >= strategies[i].current_bet)
         => LET s == strategies[i]
                t == strategies'[i]
                result == Last(outcomes')
            IN /\ Wins(s.name, result) => t.bankroll = s.bankroll + s.current_bet
               /\ ~Wins(s.name, result) => t.bankroll = s.bankroll - s.current_bet
               /\ result[1] = 0 => t.bankroll = s.bankroll - s.current_bet
               /\ t.history = Append(s.history, t.bankroll)]_vars

\* a red even or black odd number resolved, with a positive bet, by all three
WinLossResolutionWitness ==
  /\ Len(outcomes) > 0
  /\ LET result == Last(outcomes)
     IN /\ result[1] # 0
        /\ (result[2] = "Red") # (result[1] % 2 = 1)
  /\ \A i \in DOMAIN strategies :
       LET s == strategies[i]
       IN /\ Updated(s)
          /\ Len(s.history) >= 2
          /\ s.history[Len(s.history)] # s.history[Len(s.history) - 1]

\* C5: on a losing non-skipped spin Martingale's current_bet doubles when the
\* doubled value does not exceed the new bankroll and is otherwise clamped to
\* the new bankroll; on a winning spin current_bet becomes base_bet and the
\* bankroll increases by the bet active before the update.
MartingaleProgression ==
  [][\A i \in DOMAIN strategies :
       (/\ IterationStep
        /\ strategies[i].name = "Martingale"
        /\ strategies[i].bankroll >= strategies[i].current_bet)
         => LET s == strategies[i]
                t == strategies'[i]
                won == Last(outcomes')[2] = "Red"
            IN /\ won => /\ t.current_bet = s.base_bet
                         /\ t.bankroll = s.bankroll + s.current_bet
               /\ ~won => t.current_bet
                            = IF 2 * s.current_bet <= t.bankroll
                              THEN 2 * s.current_bet
                              ELSE t.bankroll]_vars

\* two consecutive losses, the first doubling the bet and the second clamping
\* it to a positive bankroll
MartingaleProgressionWitness ==
  \E i \in DOMAIN strategies :
    LET s == strategies[i]
        n == Len(s.history)
    IN /\ s.name = "Martingale"
       /\ n >= 2
       /\ s.trace[n] # NoUpdate /\ s.trace[n][2] # "Red"
       /\ s.trace[n - 1] # NoUpdate /\ s.trace[n - 1][2] # "Red"
       /\ s.initial_bankroll - s.history[1] = s.base_bet
       /\ s.history[1] - s.history[2] = 2 * s.base_bet
       /\ s.base_bet > 0
       /\ n = 2
       /\ s.current_bet = s.bankroll
       /\ s.bankroll > 0
       /\ s.bankroll < 4 * s.base_bet

\* C6 (as stated): whenever Reverse Martingale's update is applied with number
\* 0, the bankroll decreases by the pre-update current_bet and current_bet is
\* base_bet afterwards.
ReverseZeroResets ==
  [][\A i \in DOMAIN strategies :
       (/\ IterationStep
        /\ strategies[i].name = "Reverse Martingale"
        /\ strategies[i].bankroll >= strategies[i].current_bet
        /\ Last(outcomes')[1] = 0)
         => /\ strategies'[i].bankroll
                 = strategies[i].bankroll - strategies[i].current_bet
            /\ strategies'[i].current_bet = strategies[i].base_bet]_vars

\* C6 (amended): whenever Reverse Martingale's update is applied with number 0,
\* the bankroll decreases by the pre-update current_bet and current_bet becomes
\* base_bet, clamped down to the new bankroll when base_bet exceeds it.
ReverseZeroClamped ==
  [][\A i \in DOMAIN strategies :
       (/\ IterationStep
        /\ strategies[i].name = "Reverse Martingale"
        /\ strategies[i].bankroll >= strategies[i].current_bet
        /\ Last(outcomes')[1] = 0)
         => LET s == strategies[i]
                t == strategies'[i]
            IN /\ t.bankroll = s.bankroll - s.current_bet
               /\ t.current_bet
                    = IF s.base_bet > t.bankroll THEN t.bankroll ELSE s.base_bet]_vars

\* a zero has just been resolved and left less than base_bet in the bankroll
ReverseZeroClampedWitness ==
  \E i \in DOMAIN strategies :
    LET s == strategies[i]
    IN /\ s.name = "Reverse Martingale"
       /\ Updated(s)
       /\ Last(s.trace)[1] = 0
       /\ s.bankroll > 0
       /\ s.bankroll < s.base_bet
       /\ s.current_bet = s.bankroll

\* C7: Flat Betting's current_bet equals base_bet in every reachable state, and
\* on each non-skipped spin its bankroll changes by exactly +base_bet or
\* -base_bet.
FlatConstantBet ==
  /\ [](\A i \in DOMAIN strategies :
          strategies[i].name = "Flat Betting"
            => strategies[i].current_bet = strategies[i].base_bet)
  /\ [][\A i \in DOMAIN strategies :
          (/\ IterationStep
           /\ strategies[i].name = "Flat Betting"
           /\ strategies[i].bankroll >= strategies[i].current_bet)
            => \/ strategies'[i].bankroll
                    = strategies[i].bankroll + strategies[i].base_bet
               \/ strategies'[i].bankroll
                    = strategies[i].bankroll - strategies[i].base_bet]_vars

\* a loss followed by a win, both resolved with a positive base bet
FlatConstantBetWitness ==
  \E i \in DOMAIN strategies :
    LET s == strategies[i]
    IN /\ s.name = "Flat Betting"
       /\ s.base_bet > 0
       /\ Len(s.history) >= 2
       /\ s.trace[1] # NoUpdate /\ s.trace[2] # NoUpdate
       /\ s.history[1] = s.initial_bankroll - s.base_bet
       /\ s.history[2] = s.history[1] + s.base_bet

\* the strategy as constructed, before any run
Fresh(strategy) ==
  Strategy(strategy.name, strategy.initial_bankroll, strategy.base_bet)

\* the state a freshly constructed strategy reaches over a sequence of results
RECURSIVE Replay(_, _)
Replay(strategy, results) ==
  IF results = <<>> THEN strategy
  ELSE process(Replay(strategy, SubSeq(results, 1, Len(results) - 1)),
               Last(results))

\* C8: every invocation of run starts by setting every strategy to bankroll =
\* initial_bankroll, current_bet = base_bet and an empty history, whatever the
\* previous run left; a run of 0 spins ends with the initial bankroll and an
\* empty history; and in every run the state of a strategy is the one a fresh
\* strategy reaches over the outcomes drawn so far, so that two runs over the
\* same outcomes produce the same histories.
ResetOnEveryRun ==
  /\ [][(pc \in {"idle", "done"} /\ pc' = "loop")
          => \A i \in DOMAIN strategies :
               /\ strategies'[i].bankroll = strategies[i].initial_bankroll
               /\ strategies'[i].current_bet = strategies[i].base_bet
               /\ strategies'[i].history = <<>>]_vars
  /\ []((pc = "done" /\ num_spins = 0)
          => \A i \in DOMAIN strategies :
               /\ strategies[i].bankroll = strategies[i].initial_bankroll
               /\ strategies[i].history = <<>>)
  /\ [](\A i \in DOMAIN strategies :
          strategies[i].history = Replay(Fresh(strategies[i]), outcomes).history)

\* the second run has returned, after a first run that left a changed
\* bankroll, bet and history behind
ResetOnEveryRunWitness ==
  /\ runs = 2
  /\ pc = "done"
  /\ num_spins >= 2
  /\ \E i \in DOMAIN strategies :
       /\ strategies[i].bankroll # strategies[i].initial_bankroll
       /\ strategies[i].current_bet # strategies[i].base_bet

\* C9: one outcome is drawn per spin, and every strategy updated on spin k is
\* resolved against that same k-th outcome.
SharedOutcomes ==
  /\ Len(outcomes) = spin
  /\ \A i \in DOMAIN strategies :
       \A k \in 1..Len(strategies[i].trace) :
          strategies[i].trace[k] # NoUpdate
            => strategies[i].trace[k] = outcomes[k]

\* two spins with different outcomes, every strategy updated on both
SharedOutcomesWitness ==
  /\ spin >= 2
  /\ outcomes[1] # outcomes[2]
  /\ \A i \in DOMAIN strategies :
       /\ Len(strategies[i].trace) >= 2
       /\ strategies[i].trace[1] # NoUpdate
       /\ strategies[i].trace[2] # NoUpdate

\* the outcome feed of the scenario and the states it is documented to yield
Feed == <<<<1, "Red">>, <<2, "Black">>, <<3, "Red">>>>

ExpectedMartingale == <<<<1010, 10>>, <<1000, 20>>, <<1020, 10>>>>

ExpectedFlat == <<990, 1000, 990>>

ExpectedReverse == <<<<1010, 20>>, <<990, 10>>, <<1000, 20>>>>

\* C10: with outcomes (1,Red),(2,Black),(3,Red), initial bankroll 1000 and base
\* bet 10, after spins 1, 2, 3 Martingale has (bankroll, current_bet) =
\* (1010,10),(1000,20),(1020,10), Flat Betting has bankroll 990, 1000, 990 and
\* Reverse Martingale has (1010,20),(990,10),(1000,20).
ScenarioTrace ==
  \A k \in 1..Len(Feed) :
    (Len(outcomes) = k /\ outcomes = SubSeq(Feed, 1, k))
      => \A i \in DOMAIN strategies :
           LET s == strategies[i]
           IN (s.initial_bankroll = 1000 /\ s.base_bet = 10)
                => /\ s.name = "Martingale"
                        => <<s.bankroll, s.current_bet>> = ExpectedMartingale[k]
                   /\ s.name = "Flat Betting"
                        => s.bankroll = ExpectedFlat[k]
                   /\ s.name = "Reverse Martingale"
                        => <<s.bankroll, s.current_bet>> = ExpectedReverse[k]
                   /\ s.history[k] = s.bankroll

ScenarioTraceWitness ==
  /\ pc = "done"
  /\ outcomes = Feed
  /\ \A i \in DOMAIN strategies :
       /\ strategies[i].initial_bankroll = 1000
       /\ strategies[i].base_bet = 10
       /\ Len(strategies[i].history) = Len(Feed)

\* C11: for every strategy and every run of at least one spin, the reported
\* profit is the final bankroll minus the strategy's initial bankroll, and the
\* ROI has that initial bankroll as its denominator.
SummaryProfitBaseline ==
  (pc = "done" /\ num_spins >= 1)
    => \A i \in DOMAIN strategies :
         LET line == summary_statistics(get_results)[i]
         IN /\ line.final = Last(strategies[i].history)
            /\ line.profit = line.final - strategies[i].initial_bankroll
            /\ line.roi_numerator = line.profit
            /\ line.roi_denominator = strategies[i].initial_bankroll

\* the documented red numbers
DocumentedRed == {1, 3, 5, 7, 9, 12, 14, 16, 18, 19, 21, 23, 25, 27, 30, 32, 34, 36}

\* C12: the number-to-colour table is total on 0..36, maps exactly 0 to Green,
\* exactly the 18 documented numbers to Red and exactly the 18 others to Black,
\* and every outcome returned by spin is a number of 0..36 paired with that
\* number's colour.
ColourMapping ==
  /\ DOMAIN colors = 0..36
  /\ {n \in 0..36 : colors[n] = "Green"} = {0}
  /\ {n \in 0..36 : colors[n] = "Red"} = DocumentedRed
  /\ {n \in 0..36 : colors[n] = "Black"} = (1..36) \ DocumentedRed
  /\ Cardinality({n \in 0..36 : colors[n] = "Red"}) = 18
  /\ Cardinality({n \in 0..36 : colors[n] = "Black"}) = 18
  /\ \A k \in 1..Len(outcomes) :
       /\ outcomes[k][1] \in 0..36
       /\ outcomes[k][2] = IF outcomes[k][1] = 0 THEN "Green"
                           ELSE IF outcomes[k][1] \in DocumentedRed THEN "Red"
                           ELSE "Black"

\* the green number and the last number of the wheel have both been drawn
ColourMappingWitness ==
  /\ Len(outcomes) = 2
  /\ outcomes[1] = <<0, "Green">>
  /\ outcomes[2] = <<36, "Red">>

\* C13: every run that has started eventually returns, and it returns after
\* exactly num_spins iterations, whatever the outcomes and whether or not
\* strategies are skipped or bankrupt.
Termination ==
  /\ (pc = "loop") ~> (pc = "done")
  /\ [](pc = "done" => (spin = num_spins /\ Len(outcomes) = num_spins))

\* a run of at least two spins has returned with a strategy skipped and a
\* strategy bankrupt
TerminationWitness ==
  /\ pc = "done"
  /\ num_spins >= 2
  /\ \E i, j \in DOMAIN strategies :
       /\ Skipped(strategies[i])
       /\ strategies[j].bankroll = 0
       /\ Updated(strategies[j])

\* C14: whichever other strategies are in the list and in whatever order, the
\* bankroll, current_bet and history of a strategy are those it reaches when
\* the outcomes drawn are applied to it alone: processing the other strategies
\* leaves them unchanged.
StrategyIndependence ==
  \A i \in DOMAIN strategies :
    LET alone == Replay(Fresh(strategies[i]), outcomes)
    IN /\ strategies[i].bankroll = alone.bankroll
       /\ strategies[i].current_bet = alone.current_bet
       /\ strategies[i].history = alone.history

\* two spins over a list that starts with Reverse Martingale and ends with
\* Martingale, the two having different histories
StrategyIndependenceWitness ==
  /\ pc = "done"
  /\ num_spins >= 2
  /\ Len(strategies) >= 2
  /\ strategies[1].name = "Reverse Martingale"
  /\ strategies[Len(strategies)].name = "Martingale"
  /\ strategies[1].history # strategies[Len(strategies)].history
  /\ strategies[1].current_bet # strategies[Len(strategies)].current_bet

\* C15: on every spin where the runner calls update the bet satisfies
\* 0 <= current_bet <= bankroll, so the bankroll is >= 0 in every reachable
\* state; and a strategy whose current_bet equals its bankroll is not skipped
\* but bets its entire bankroll.
NeverBeyondMeans ==
  /\ [](\A i \in DOMAIN strategies : strategies[i].bankroll >= 0)
  /\ [][\A i \in DOMAIN strategies :
          IterationStep
            => LET s == strategies[i]
                   t == strategies'[i]
               IN /\ Updated(t) => (0 <= s.current_bet /\ s.current_bet <= s.bankroll)
                  /\ s.current_bet = s.bankroll
                       => /\ Updated(t)
                          /\ t.bankroll \in {0, 2 * s.bankroll}]_vars

\* a strategy whose bet had been clamped below base_bet has bet, and lost, all
\* it had left
NeverBeyondMeansWitness ==
  \E i \in DOMAIN strategies :
    LET s == strategies[i]
        n == Len(s.history)
    IN /\ n >= 2
       /\ Updated(s)
       /\ s.trace[n - 1] # NoUpdate
       /\ s.history[n - 1] > 0
       /\ s.history[n - 1] < s.base_bet
       /\ s.bankroll = 0

\* C16: on a non-skipped winning spin (odd number) Reverse Martingale's
\* current_bet becomes min(2 * previous current_bet, new bankroll); on a
\* non-skipped losing spin (even number or 0) it becomes
\* min(base_bet, new bankroll).
ReverseProgression ==
  [][\A i \in DOMAIN strategies :
       (/\ IterationStep
        /\ strategies[i].name = "Reverse Martingale"
        /\ strategies[i].bankroll >= strategies[i].current_bet)
         => LET s == strategies[i]
                t == strategies'[i]
                number == Last(outcomes')[1]
                target == IF number % 2 = 1 THEN 2 * s.current_bet ELSE s.base_bet
            IN t.current_bet = IF target <= t.bankroll THEN target ELSE t.bankroll]_vars

\* a win that doubled the bet, then a loss that left a positive bankroll
\* below base_bet
ReverseProgressionWitness ==
  \E i \in DOMAIN strategies :
    LET s == strategies[i]
    IN /\ s.name = "Reverse Martingale"
       /\ Len(s.trace) = 2
       /\ s.trace[1] # NoUpdate /\ s.trace[1][1] % 2 = 1
       /\ s.trace[2] # NoUpdate /\ s.trace[2][1] % 2 = 0
       /\ s.base_bet > 0
       /\ s.history[1] - s.history[2] = 2 * s.base_bet
       /\ s.bankroll > 0
       /\ s.current_bet = s.bankroll
       /\ s.bankroll < s.base_bet

\* C17: a strategy skipped on a spin of a run is skipped on the next spin of
\* that run, hence on every later one, with its bankroll and current_bet
\* unchanged until the run ends.
SkipPermanence ==
  [][\A i \in DOMAIN strategies :
       (pc = "loop" /\ Skipped(strategies[i]))
         => /\ strategies'[i].bankroll = strategies[i].bankroll
            /\ strategies'[i].current_bet = strategies[i].current_bet
            /\ IterationStep => Skipped(strategies'[i])]_vars

\* a strategy updated on the first spin and skipped on the next two
SkipPermanenceWitness ==
  \E i \in DOMAIN strategies :
    LET s == strategies[i]
    IN /\ Len(s.trace) = 3
       /\ s.trace[1] # NoUpdate
       /\ s.trace[2] = NoUpdate
       /\ s.trace[3] = NoUpdate
       /\ s.history[1] = s.history[3]

\* C18: once a strategy's bankroll is 0 during a run it stays 0 on every later
\* spin of that run, whether the strategy is skipped or updated with a zero
\* bet.
BankruptcyAbsorbing ==
  [][\A i \in DOMAIN strategies :
       (pc = "loop" /\ strategies[i].bankroll = 0)
         => strategies'[i].bankroll = 0]_vars

\* a strategy bankrupted by the first spin, then updated with a zero bet, then
\* skipped
BankruptcyAbsorbingWitness ==
  \E i \in DOMAIN strategies :
    LET s == strategies[i]
    IN /\ Len(s.trace) = 3
       /\ s.initial_bankroll > 0
       /\ s.trace[1] # NoUpdate
       /\ s.history[1] = 0
       /\ s.trace[2] # NoUpdate
       /\ s.trace[3] = NoUpdate
       /\ s.bankroll = 0

\* the state the strategy had after the first j spins of the run
PastState(strategy, j) ==
  Replay(Fresh(strategy), SubSeq(outcomes, 1, j))

\* C19: if Martingale has current_bet = base_bet and bankroll B, then loses
\* k >= 0 consecutive non-skipped spins without a clamp and then wins a
\* non-skipped spin, its bankroll after the win is B + base_bet and its
\* current_bet is base_bet.
MartingaleRecovery ==
  \A i \in DOMAIN strategies :
    LET s == strategies[i]
        n == Len(s.trace)
    IN (s.name = "Martingale" /\ n >= 1)
         => \A j \in 0..(n - 1) :
              LET start == PastState(s, j)
              IN (/\ start.current_bet = s.base_bet
                  /\ \A m \in (j + 1)..n : s.trace[m] # NoUpdate
                  /\ s.trace[n][2] = "Red"
                  /\ \A m \in (j + 1)..(n - 1) :
                       /\ s.trace[m][2] # "Red"
                       /\ 2 * PastState(s, m - 1).current_bet
                            <= PastState(s, m).bankroll)
                   => /\ s.bankroll = start.bankroll + s.base_bet
                      /\ s.current_bet = s.base_bet

\* two losses that doubled the bet twice, then a win
MartingaleRecoveryWitness ==
  \E i \in DOMAIN strategies :
    LET s == strategies[i]
    IN /\ s.name = "Martingale"
       /\ s.base_bet > 0
       /\ Len(s.trace) = 3
       /\ s.trace[1] # NoUpdate /\ s.trace[1][2] # "Red"
       /\ s.trace[2] # NoUpdate /\ s.trace[2][2] # "Red"
       /\ s.trace[3] # NoUpdate /\ s.trace[3][2] = "Red"
       /\ s.history[1] = s.initial_bankroll - s.base_bet
       /\ s.history[2] = s.initial_bankroll - 3 * s.base_bet
       /\ s.bankroll = s.initial_bankroll + s.base_bet
====
